---- MODULE Spec2Model ----
(***************************************************************************)
(* Model of the top-languages pipeline of github-readme-stats:             *)
(*   fetchTopLanguages   (src/unnamed/part_000)                            *)
(*   renderTopLanguages, useLanguages, renderCompactLayout and the height  *)
(*   helpers             (src/src/cards/top-languages-card.js)             *)
(*                                                                         *)
(* JavaScript numbers are binary floating point.  They are modelled as a   *)
(* binary floating-point format with MantissaBits significant bits and     *)
(* round-to-nearest, ties-to-even (the IEEE 754 default that binary64      *)
(* uses with 53 bits).  A finite non-negative value v is held as the       *)
(* integer v * 2^FracBits; NaN is a separate value.                        *)
(***************************************************************************)
EXTENDS Integers, Sequences, FiniteSets, TLC

VARIABLES
    pc,             \* position of the request: "start", "awaiting", "fetched", "rendered", "failed"
    username,       \* first argument of fetchTopLanguages / renderTopLanguages
    options,        \* options argument of renderTopLanguages
    res,            \* the upstream response handed back by retryer
    requests,       \* number of calls made to retryer(fetcher, ...)
    err,            \* the error fetchTopLanguages threw, or NoError
    heap,           \* the objects allocated so far: heap[id] is the record behind reference id
    topLangs,       \* return value of fetchTopLanguages: per repository, a list of references
    allUniqueLangs, \* renderTopLanguages: the merged list (references), after its sort
    legend,         \* the names and fills createLanguageTextNode draws, in order
    layouts,        \* per repository, the rects renderCompactLayout draws
    height,         \* the height handed to Card
    upc,            \* useLanguages: "call" before, "returned" after
    uTopLangs,      \* useLanguages: Object.values(topLangs), in property order
    uHide,          \* useLanguages: hide
    uCount,         \* useLanguages: langs_count, in halves (5 stands for "2.5")
    uResult         \* useLanguages: { langs, totalLanguageSize }

vars == <<pc, username, options, res, requests, err, heap, topLangs,
          allUniqueLangs, legend, layouts, height,
          upc, uTopLangs, uHide, uCount, uResult>>

pipeVars == <<pc, username, options, res, requests, err, heap, topLangs,
              allUniqueLangs, legend, layouts, height>>

useVars == <<upc, uTopLangs, uHide, uCount, uResult>>

----------------------------------------------------------------------------
(* Bounds of the model *)

MaxRepos == 3
MantissaBits == 4
MaxLangs == 12
TotalBits == 6

----------------------------------------------------------------------------
(* Numbers *)

NaN == -1

RECURSIVE Pow2(_)
Pow2(k) == IF k = 0 THEN 1 ELSE 2 * Pow2(k - 1)

\* Raw byte sizes of one repository sum to less than 2^TotalBits in the inputs below,
\* so every share byte/total is at least 2^-TotalBits and sits on the 2^-FracBits grid.
FracBits == MantissaBits + TotalBits
Scale == Pow2(FracBits)

IsFinite(x) == x # NaN

\* n/d (n >= 0, d > 0) scaled by 2^e, rounded to the nearest integer, ties to even.
RoundedMantissa(n, d, e) ==
    LET num == IF e >= 0 THEN n * Pow2(e) ELSE n
        den == IF e >= 0 THEN d ELSE d * Pow2(0 - e)
        q   == num \div den
        r   == num % den
    IN  IF 2 * r > den \/ (2 * r = den /\ q % 2 = 1) THEN q + 1 ELSE q

\* The exponent e that puts n/d * 2^e in [2^(MantissaBits-1), 2^MantissaBits).
ExponentOf(n, d) ==
    CHOOSE e \in (0 - 8)..FracBits :
        LET num == IF e >= 0 THEN n * Pow2(e) ELSE n
            den == IF e >= 0 THEN d ELSE d * Pow2(0 - e)
        IN  /\ Pow2(MantissaBits - 1) * den <= num
            /\ num < Pow2(MantissaBits) * den

\* The floating-point number nearest to the rational n/d, as a scaled integer.
RoundToFloat(n, d) ==
    IF n = 0 THEN 0
    ELSE LET e == ExponentOf(n, d)
         IN  RoundedMantissa(n, d, e) * Pow2(FracBits - e)

\* a + b on numbers
FAdd(a, b) ==
    IF a = NaN \/ b = NaN THEN NaN ELSE RoundToFloat(a + b, Scale)

\* a / b for integers a >= 0, b >= 0 (0/0 is NaN)
FDiv(a, b) ==
    IF b = 0 THEN NaN ELSE RoundToFloat(a, b)

----------------------------------------------------------------------------
(* Strings.  A language name is a sequence of characters, so that            *)
(* toLowerCase() and trim() can be computed; other strings are atomic.       *)

ToLowerChar(c) ==
    CASE c = "J" -> "j" [] c = "S" -> "s" [] c = "G" -> "g" [] c = "O" -> "o"
      [] c = "H" -> "h" [] c = "A" -> "a" [] c = "B" -> "b" [] c = "C" -> "c"
      [] OTHER -> c

ToLowerCase(s) == [i \in 1..Len(s) |-> ToLowerChar(s[i])]

RECURSIVE TrimStart(_)
TrimStart(s) == IF s # <<>> /\ Head(s) = " " THEN TrimStart(Tail(s)) ELSE s

RECURSIVE TrimEnd(_)
TrimEnd(s) == IF s # <<>> /\ s[Len(s)] = " " THEN TrimEnd(SubSeq(s, 1, Len(s) - 1)) ELSE s

Trim(s) == TrimEnd(TrimStart(s))

lowercaseTrim(name) == Trim(ToLowerCase(name))

----------------------------------------------------------------------------
(* Program constants *)

DEFAULT_CARD_WIDTH == 300
MIN_CARD_WIDTH == 230
DEFAULT_LANGS_COUNT == 5
DEFAULT_LANG_COLOR == "#858585"

----------------------------------------------------------------------------
(* Inputs: what the upstream can answer, and what the caller can ask for *)

JS     == [name |-> <<"J", "S">>, color |-> "#f1e05a"]
JSalt  == [name |-> <<"J", "S">>, color |-> "#cccccc"]   \* same name, other colour
Go     == [name |-> <<"G", "o">>, color |-> "#00ADD8"]
Sh     == [name |-> <<"S", "h">>, color |-> ""]          \* color: null
NoName == [name |-> <<>>,         color |-> "#555555"]   \* name missing

Edge(node, size) == [size |-> size, node |-> node]

\* Repository nodes as the query returns them: languages ordered by size, descending.
RepoPool ==
    { [name |-> "empty", edges |-> <<>>],
      [name |-> "zero",  edges |-> <<Edge(JS, 0)>>],
      [name |-> "mono",  edges |-> <<Edge(JS, 1)>>],
      [name |-> "duo",   edges |-> <<Edge(Go, 2), Edge(JS, 1)>>],
      [name |-> "quad",  edges |-> <<Edge(Go, 3), Edge(JS, 1)>>],
      [name |-> "mixed", edges |-> <<Edge(JSalt, 1), Edge(Sh, 1), Edge(NoName, 1)>>],
      [name |-> "thin",  edges |-> <<Edge(JS, 48), Edge(Go, 1), Edge(JSalt, 1)>>] }

\* the sequences of at most n distinct elements of S
SeqsUpTo(S, n) ==
    UNION { { q \in [1..k -> S] : \A i, j \in 1..k : i # j => q[i] # q[j] } : k \in 0..n }

\* res.data.errors; <<>> stands for "no errors member"
ErrorPayloads ==
    { <<[type |-> "NOT_FOUND", message |-> "Could not resolve to a User"]>>,
      <<[type |-> "NOT_FOUND", message |-> ""]>>,
      <<[type |-> "FORBIDDEN", message |-> "API rate limit exceeded"]>>,
      <<[type |-> "FORBIDDEN", message |-> ""]>> }

Responses ==
    { [errors |-> e, statusText |-> "OK", nodes |-> <<>>] : e \in ErrorPayloads }
    \cup
    { [errors |-> <<>>, statusText |-> "OK", nodes |-> n] : n \in SeqsUpTo(RepoPool, MaxRepos) }

NoResponse == [errors |-> <<>>, statusText |-> "", nodes |-> <<>>]

Usernames == {"", "octocat"}

\* langs_count is held in halves, so that "2.5" can be asked for
OptionSet ==
    [ hide        : { <<>>, << <<" ", "j", "s", " ">> >> },
      layout      : { "normal", "compact" },
      card_width  : { NaN, 100 },
      langs_count : { 2 * DEFAULT_LANGS_COUNT } ]

NoError == [class |-> "none", message |-> "", type |-> ""]

----------------------------------------------------------------------------
(* fetchTopLanguages *)

\* repo.languages.edges.map(lang => lang.size).reduce((a, b) => a + b, 0)
RECURSIVE totalSize(_)
totalSize(edges) ==
    IF edges = <<>> THEN 0 ELSE totalSize(SubSeq(edges, 1, Len(edges) - 1)) + edges[Len(edges)].size

\* the inner map: one share object per language edge of a repository
ShareRecords(repo) ==
    [k \in 1..Len(repo.edges) |->
        [name      |-> repo.edges[k].node.name,
         color     |-> repo.edges[k].node.color,
         size      |-> FDiv(repo.edges[k].size, totalSize(repo.edges)),
         repo_name |-> repo.name]]

\* .filter(repo => repo.languages.edges.length !== 0)
NonEmptyRepos(repoNodes) == SelectSeq(repoNodes, LAMBDA repo : Len(repo.edges) # 0)

\* Allocates the share objects of the kept repositories after the objects of h and
\* returns the heap and, per repository, the list of references.
RECURSIVE AllocRepos(_, _, _)
AllocRepos(repos, h, lists) ==
    IF repos = <<>> THEN [heap |-> h, lists |-> lists]
    ELSE LET recs == ShareRecords(Head(repos))
             refs == [k \in 1..Len(recs) |-> Len(h) + k]
         IN  AllocRepos(Tail(repos), h \o recs, Append(lists, refs))

\* FetchStart with the request issued before the username is looked at
FetchStart_RequestFirst ==
    /\ pc = "start"
    /\ requests' = requests + 1
    /\ IF username = ""
       THEN /\ pc' = "failed"
            /\ err' = [class |-> "MissingParamError", message |-> "username", type |-> ""]
       ELSE /\ pc' = "awaiting"
            /\ err' = err
    /\ UNCHANGED <<username, options, res, heap, topLangs, allUniqueLangs, legend,
                   layouts, height>>
    /\ UNCHANGED useVars

\* if (!username) throw new MissingParamError(["username"]);
\* const res = await retryer(fetcher, { login: username });
FetchStart ==
    /\ pc = "start"
    /\ IF username = ""
       THEN /\ pc' = "failed"
            /\ err' = [class |-> "MissingParamError", message |-> "username", type |-> ""]
            /\ requests' = requests
       ELSE /\ pc' = "awaiting"
            /\ err' = err
            /\ requests' = requests + 1
    /\ UNCHANGED <<username, options, res, heap, topLangs, allUniqueLangs, legend,
                   layouts, height>>
    /\ UNCHANGED useVars

\* What fetchTopLanguages throws for a response, or NoError.
ThrownFor(r) ==
    IF r.errors # <<>>
    THEN [class   |-> "Error",
          message |-> IF r.errors[1].message # "" THEN r.errors[1].message
                      ELSE "Could not fetch user",
          type    |-> ""]
    ELSE IF r.errors # <<>>
    THEN IF r.errors[1].type = "NOT_FOUND"
         THEN [class   |-> "CustomError",
               message |-> IF r.errors[1].message # "" THEN r.errors[1].message
                           ELSE "Could not fetch user.",
               type    |-> "USER_NOT_FOUND"]
         ELSE IF r.errors[1].message # ""
         THEN [class |-> "CustomError", message |-> r.errors[1].message,
               type |-> r.statusText]
         ELSE [class   |-> "CustomError",
               message |-> "Something went while trying to retrieve the language data using the GraphQL API.",
               type    |-> "GRAPHQL_ERROR"]
    ELSE NoError

\* the rest of fetchTopLanguages, run when the awaited response r arrives
FetchResume(r) ==
    /\ pc = "awaiting"
    /\ res' = r
    /\ IF ThrownFor(r) # NoError
       THEN /\ pc' = "failed"
            /\ err' = ThrownFor(r)
            /\ UNCHANGED <<heap, topLangs>>
       ELSE LET a == AllocRepos(NonEmptyRepos(r.nodes), heap, <<>>)
            IN  /\ pc' = "fetched"
                /\ err' = err
                /\ heap' = a.heap
                /\ topLangs' = a.lists
    /\ UNCHANGED <<username, options, requests, allUniqueLangs, legend, layouts, height>>
    /\ UNCHANGED useVars

----------------------------------------------------------------------------
(* Array.prototype.sort((a, b) => b.size - a.size) *)

\* the comparator's verdict "a goes after b": b.size - a.size > 0 (false when it is NaN)
SortsAfter(a, b) == a # NaN /\ b # NaN /\ b > a

\* order holds the indices sorted so far; index i goes in front of the first index
\* it must precede, behind every index it ties with (the sort is stable)
RECURSIVE InsertDesc(_, _, _)
InsertDesc(order, i, sizes) ==
    IF order = <<>> THEN <<i>>
    ELSE IF SortsAfter(sizes[Head(order)], sizes[i]) THEN <<i>> \o order
    ELSE <<Head(order)>> \o InsertDesc(Tail(order), i, sizes)

RECURSIVE StableOrder(_, _)
StableOrder(sizes, k) ==
    IF k = 0 THEN <<>> ELSE InsertDesc(StableOrder(sizes, k - 1), k, sizes)

\* b.size - a.size is NaN, read as 0, when a size is NaN: a NaN size ties with
\* everything, and the comparator is inconsistent once two other sizes differ.
ConsistentComparator(sizes) ==
    \/ \A i \in DOMAIN sizes : sizes[i] # NaN
    \/ \A i, j \in DOMAIN sizes : sizes[i] # NaN /\ sizes[j] # NaN => sizes[i] = sizes[j]

\* The orders sort may leave: the stable descending one, or, with an inconsistent
\* comparator, any order (ECMAScript leaves it to the implementation).
SortOrders(sizes) ==
    IF ConsistentComparator(sizes) THEN { StableOrder(sizes, Len(sizes)) }
    ELSE { o \in [DOMAIN sizes -> DOMAIN sizes] : \A i, j \in DOMAIN sizes : i # j => o[i] # o[j] }

Reorder(s, order) == [i \in 1..Len(s) |-> s[order[i]]]

----------------------------------------------------------------------------
(* renderTopLanguages *)

RECURSIVE Flatten(_)
Flatten(lists) == IF lists = <<>> THEN <<>> ELSE Head(lists) \o Flatten(Tail(lists))

\* FindLang matching on the name alone
RECURSIVE FindLang_NameOnly(_, _, _, _)
FindLang_NameOnly(uniq, h, lang, k) ==
    IF k > Len(uniq) THEN 0
    ELSE IF h[uniq[k]].name = lang.name THEN k
    ELSE FindLang_NameOnly(uniq, h, lang, k + 1)

\* allUniqueLangs.find((x) => x.color === lang.color && x.name === lang.name):
\* the position of the first match in uniq, 0 when there is none
RECURSIVE FindLang(_, _, _, _)
FindLang(uniq, h, lang, k) ==
    IF k > Len(uniq) THEN 0
    ELSE IF h[uniq[k]].color = lang.color /\ h[uniq[k]].name = lang.name THEN k
    ELSE FindLang(uniq, h, lang, k + 1)

\* MergeStep pushing the share itself, not a clone of it
MergeStep_Alias(ref, h, uniq) ==
    LET lang  == h[ref]
        found == FindLang(uniq, h, lang, 1)
    IN  IF lang.color = "" \/ lang.name = <<>>
        THEN [heap |-> h, uniq |-> uniq]
        ELSE IF found # 0
        THEN [heap |-> [h EXCEPT ![uniq[found]].size = FAdd(@, lang.size)], uniq |-> uniq]
        ELSE [heap |-> h, uniq |-> Append(uniq, ref)]

\* MergeStep with found.size = lang.size for found.size += lang.size
MergeStep_Overwrite(ref, h, uniq) ==
    LET lang  == h[ref]
        found == FindLang(uniq, h, lang, 1)
    IN  IF lang.color = "" \/ lang.name = <<>>
        THEN [heap |-> h, uniq |-> uniq]
        ELSE IF found # 0
        THEN [heap |-> [h EXCEPT ![uniq[found]].size = lang.size], uniq |-> uniq]
        ELSE [heap |-> Append(h, lang), uniq |-> Append(uniq, Len(h) + 1)]

\* the body of the inner forEach, for the share behind reference ref
MergeStep(ref, h, uniq) ==
    LET lang  == h[ref]
        found == FindLang(uniq, h, lang, 1)
    IN  IF lang.color = "" \/ lang.name = <<>>
        THEN [heap |-> h, uniq |-> uniq]
        ELSE IF found # 0
        THEN [heap |-> [h EXCEPT ![uniq[found]].size = FAdd(@, lang.size)], uniq |-> uniq]
        ELSE [heap |-> Append(h, lang), uniq |-> Append(uniq, Len(h) + 1)]

\* langs.forEach((langs_in_repo) => langs_in_repo.forEach(...)) over the references refs
RECURSIVE MergePass(_, _, _)
MergePass(refs, h, uniq) ==
    IF refs = <<>> THEN [heap |-> h, uniq |-> uniq]
    ELSE LET m == MergeStep(Head(refs), h, uniq)
         IN  MergePass(Tail(refs), m.heap, m.uniq)

\* Math.round(x / 2) for an integer x >= 0: floor(x / 2 + 0.5)
RoundHalf(x) == (x + 1) \div 2

calculateCompactLayoutHeight(totalLangs) == 90 + RoundHalf(totalLangs) * 19

calculateNormalLayoutHeight(totalLangs) == 45 + (totalLangs + 1) * 40

\* parseFloat((size * offsetWidth).toFixed(2)), in hundredths, halves rounded up
Percentage(size, offsetWidth) ==
    IF size = NaN THEN NaN
    ELSE (2 * 100 * size * offsetWidth + Scale) \div (2 * Scale)

\* one language of a strip: the rect drawn at progressOffset, and the next offset
\* (x, width and the offset in hundredths)
RECURSIVE CompactRects(_, _, _, _, _)
CompactRects(refs, h, offsetWidth, user, progressOffset) ==
    IF refs = <<>> THEN <<>>
    ELSE LET lang       == h[Head(refs)]
             percentage == Percentage(lang.size, offsetWidth)
             progress   == IF percentage # NaN /\ percentage < 10 * 100
                           THEN percentage + 10 * 100 ELSE percentage
             next       == IF progressOffset = NaN \/ percentage = NaN THEN NaN
                           ELSE progressOffset + percentage
         IN  << [x     |-> progressOffset,
                 width |-> progress,
                 fill  |-> IF lang.color # "" THEN lang.color ELSE DEFAULT_LANG_COLOR,
                 href  |-> <<user, lang.repo_name>>] >>
             \o CompactRects(Tail(refs), h, offsetWidth, user, next)

renderCompactLayout(langs, h, width, user) == CompactRects(langs, h, width, user, 0)

\* the items of createLanguageTextNode: one circle + name per language, in order
createLanguageTextNode(langs, h) ==
    [i \in 1..Len(langs) |->
        [name |-> h[langs[i]].name,
         fill |-> IF h[langs[i]].color # "" THEN h[langs[i]].color ELSE DEFAULT_LANG_COLOR]]

\* isNaN(card_width) ? DEFAULT_CARD_WIDTH : card_width < MIN_CARD_WIDTH ? MIN_CARD_WIDTH : card_width
BarWidth(card_width) ==
    IF card_width = NaN THEN DEFAULT_CARD_WIDTH
    ELSE IF card_width < MIN_CARD_WIDTH THEN MIN_CARD_WIDTH
    ELSE card_width

\* the height renderTopLanguages gives the card for the list langs and the options
CardHeight(langs, opts) == calculateCompactLayoutHeight(Len(langs))

\* the languages renderTopLanguages passes to createLanguageTextNode, given the
\* merged and sorted list
LegendLangs(sorted, h, opts) == sorted

Render ==
    /\ pc = "fetched"
    /\ LET m     == MergePass(Flatten(topLangs), heap, <<>>)
           sizes == [i \in 1..Len(m.uniq) |-> m.heap[m.uniq[i]].size]
       IN  \E order \in SortOrders(sizes) :
             LET sorted == Reorder(m.uniq, order)
             IN  /\ heap' = m.heap
                 /\ allUniqueLangs' = sorted
                 /\ legend' = createLanguageTextNode(LegendLangs(sorted, m.heap, options), m.heap)
                 /\ layouts' = [i \in 1..Len(topLangs) |->
                                  renderCompactLayout(topLangs[i], m.heap,
                                                      BarWidth(options.card_width), username)]
                 /\ height' = CardHeight(topLangs, options)
    /\ pc' = "rendered"
    /\ UNCHANGED <<username, options, res, requests, err, topLangs>>
    /\ UNCHANGED useVars

----------------------------------------------------------------------------
(* useLanguages *)

\* parseInt of a count given in halves: the integer part, truncated toward zero
parseInt(h) == IF h >= 0 THEN h \div 2 ELSE 0 - ((0 - h) \div 2)

\* clampValue(number, min, max) of common/utils.js
clampValue(number, min, max) ==
    LET low == IF number < max THEN number ELSE max
    IN  IF low > min THEN low ELSE min

\* langs.reduce((acc, curr) => acc + curr.size, 0)
RECURSIVE SumSizes(_)
SumSizes(langs) ==
    IF langs = <<>> THEN 0
    ELSE FAdd(SumSizes(SubSeq(langs, 1, Len(langs) - 1)), langs[Len(langs)].size)

\* useLanguages with the slice taken before the filter
useLanguages_SliceBeforeFilter(values, hide, langs_count, order) ==
    LET langsCount  == clampValue(parseInt(langs_count), 1, 10)
        langsToHide == { lowercaseTrim(hide[i]) : i \in 1..Len(hide) }
        sorted      == Reorder(values, order)
        cut         == SubSeq(sorted, 1, IF Len(sorted) < langsCount THEN Len(sorted) ELSE langsCount)
        langs       == SelectSeq(cut, LAMBDA lang : lowercaseTrim(lang.name) \notin langsToHide)
    IN  [langs |-> langs, totalLanguageSize |-> SumSizes(langs)]

\* values is Object.values(topLangs); order is the order its sort leaves
useLanguages(values, hide, langs_count, order) ==
    LET langsCount  == clampValue(parseInt(langs_count), 1, 10)
        langsToHide == { lowercaseTrim(hide[i]) : i \in 1..Len(hide) }
        sorted      == Reorder(values, order)
        shown       == SelectSeq(sorted, LAMBDA lang : lowercaseTrim(lang.name) \notin langsToHide)
        langs       == SubSeq(shown, 1, IF Len(shown) < langsCount THEN Len(shown) ELSE langsCount)
    IN  [langs |-> langs, totalLanguageSize |-> SumSizes(langs)]

UseCall ==
    /\ upc = "call"
    /\ \E order \in SortOrders([i \in 1..Len(uTopLangs) |-> uTopLangs[i].size]) :
           uResult' = useLanguages(uTopLangs, uHide, uCount, order)
    /\ upc' = "returned"
    /\ UNCHANGED <<uTopLangs, uHide, uCount>>
    /\ UNCHANGED pipeVars

\* The collections useLanguages is called on: language i carries the i-th name
\* (names differ in case and in surrounding blanks) and one of two sizes.
UseLetters == <<"A", "b", "C", "g", "H", "j", "O", "s", "k", "l", "m", "n", "p", "q">>

UseName(i) ==
    IF i % 3 = 1 THEN <<UseLetters[i]>>
    ELSE IF i % 3 = 2 THEN <<" ", UseLetters[i]>>
    ELSE <<UseLetters[i], " ">>

UseSizes == { FDiv(1, 2), FDiv(4, 3) }

UseInputs ==
    UNION { { [i \in 1..n |-> [name |-> UseName(i), color |-> "#f1e05a", size |-> sz[i]]] :
                sz \in [1..n -> UseSizes] } : n \in 0..MaxLangs }

UseHides == { <<>>, << <<"a">> >>, << <<" ", "B", " ">>, <<"c">> >> }

\* langs_count in halves: "-1.5", "1", "2.5", "25"
UseCounts == { 0 - 3, 2, 5, 50 }

InitUse ==
    /\ pc = "idle"
    /\ username = "octocat"
    /\ options \in { o \in OptionSet : o.hide = <<>> /\ o.layout = "compact" /\ o.card_width = NaN }
    /\ res = NoResponse
    /\ requests = 0
    /\ err = NoError
    /\ heap = <<>>
    /\ topLangs = <<>>
    /\ allUniqueLangs = <<>>
    /\ legend = <<>>
    /\ layouts = <<>>
    /\ height = 0
    /\ upc = "call"
    /\ uTopLangs \in UseInputs
    /\ uHide \in UseHides
    /\ uCount \in UseCounts
    /\ uResult = [langs |-> <<>>, totalLanguageSize |-> 0]

NextUse == UseCall

SpecUse == InitUse /\ [][NextUse]_vars

----------------------------------------------------------------------------
(* The request: fetchTopLanguages, then renderTopLanguages on what it returned *)

Init ==
    /\ pc = "start"
    /\ username \in Usernames
    /\ options \in OptionSet
    /\ res = NoResponse
    /\ requests = 0
    /\ err = NoError
    /\ heap = <<>>
    /\ topLangs = <<>>
    /\ allUniqueLangs = <<>>
    /\ legend = <<>>
    /\ layouts = <<>>
    /\ height = 0
    /\ upc = "idle"
    /\ uTopLangs = <<>>
    /\ uHide = <<>>
    /\ uCount = 0
    /\ uResult = [langs |-> <<>>, totalLanguageSize |-> 0]

Next ==
    \/ FetchStart
    \/ \E r \in Responses : FetchResume(r)
    \/ Render

Spec == Init /\ [][Next]_vars

----------------------------------------------------------------------------
(* Properties *)

\* the share records fetchTopLanguages returned, in encounter order
InputRefs == Flatten(topLangs)
InputShares == [k \in 1..Len(InputRefs) |-> heap[InputRefs[k]]]

\* the repositories of the response that fetchTopLanguages keeps
KeptRepos == NonEmptyRepos(res.nodes)

\* C1: every share fetchTopLanguages returns is a finite value in [0,1], and the
\* shares of a repository whose byte sizes sum to zero are all 0.
C1_SharesFiniteZeroForZeroTotal ==
    pc = "fetched" =>
        \A i \in 1..Len(topLangs) : \A k \in 1..Len(topLangs[i]) :
            LET size == heap[topLangs[i][k]].size
            IN  /\ IsFinite(size)
                /\ 0 <= size /\ size <= Scale
                /\ (totalSize(KeptRepos[i].edges) = 0 => size = 0)

\* C2: an errors payload whose first error has type NOT_FOUND makes
\* fetchTopLanguages fail with a CustomError of kind USER_NOT_FOUND, any other
\* errors payload with an error that is not of that kind; no data is returned.
C2_NotFoundIsTyped ==
    res.errors # <<>> =>
        /\ pc = "failed"
        /\ topLangs = <<>>
        /\ err # NoError
        /\ (res.errors[1].type = "NOT_FOUND")
             <=> (err.class = "CustomError" /\ err.type = "USER_NOT_FOUND")

\* C8: with an absent or empty username fetchTopLanguages fails with the
\* missing-parameter error and never calls the retryer.
C8_MissingUsernameNoRequest ==
    username = "" =>
        /\ requests = 0
        /\ pc \in {"start", "failed"}
        /\ (pc = "failed" => err.class = "MissingParamError")

C8_Witness ==
    /\ username = ""
    /\ pc = "failed"
    /\ err.class = "MissingParamError"
    /\ requests = 0

\* a share the merge pass does not skip
HasNameAndColor(share) == share.color # "" /\ share.name # <<>>

PairOf(share) == <<share.name, share.color>>

\* the sizes of the shares of a sequence that carry the pair p, in order
SizesOfPair(shares, p) ==
    LET hits == SelectSeq(shares, LAMBDA x : HasNameAndColor(x) /\ PairOf(x) = p)
    IN  [k \in 1..Len(hits) |-> hits[k].size]

\* s[1] + s[2] + ... + s[n], added left to right (s non-empty)
RECURSIVE SumInOrder(_)
SumInOrder(s) ==
    IF Len(s) = 1 THEN s[1]
    ELSE FAdd(SumInOrder(SubSeq(s, 1, Len(s) - 1)), s[Len(s)])

MergedPositions(p) ==
    { k \in 1..Len(allUniqueLangs) : PairOf(heap[allUniqueLangs[k]]) = p }

\* C3: after the merge pass the merged list holds exactly one entry per (name, color)
\* pair of the input shares that have a name and a color, its size the sum of the
\* sizes of the shares with that pair; a name with two colours gives two entries;
\* shares without name or colour give none.
C3_MergeByNameAndColor ==
    pc = "rendered" =>
        /\ \A k \in 1..Len(InputShares) :
              HasNameAndColor(InputShares[k]) =>
                 LET p == PairOf(InputShares[k])
                 IN  /\ Cardinality(MergedPositions(p)) = 1
                     /\ \A m \in MergedPositions(p) :
                           heap[allUniqueLangs[m]].size = SumInOrder(SizesOfPair(InputShares, p))
        /\ \A m \in 1..Len(allUniqueLangs) :
              \E k \in 1..Len(InputShares) :
                 /\ HasNameAndColor(InputShares[k])
                 /\ PairOf(InputShares[k]) = PairOf(heap[allUniqueLangs[m]])

C3_Witness ==
    /\ pc = "rendered"
    /\ \E k \in 1..Len(InputShares) : ~HasNameAndColor(InputShares[k])
    /\ \E m, n \in 1..Len(allUniqueLangs) :
          /\ heap[allUniqueLangs[m]].name = heap[allUniqueLangs[n]].name
          /\ heap[allUniqueLangs[m]].color # heap[allUniqueLangs[n]].color
          /\ Len(SizesOfPair(InputShares, PairOf(heap[allUniqueLangs[m]]))) >= 2

\* C5: no language whose lowercased, trimmed name matches an entry of the hide
\* option is drawn in the legend of the card.
C5_HiddenNotInLegend ==
    pc = "rendered" =>
        \A i \in 1..Len(legend) : \A j \in 1..Len(options.hide) :
            lowercaseTrim(legend[i].name) # lowercaseTrim(options.hide[j])

\* the size of the Selection: the merged languages that are not hidden, cut to the
\* clamped count
SelectionSize ==
    LET shown == { m \in 1..Len(allUniqueLangs) :
                     \A j \in 1..Len(options.hide) :
                        lowercaseTrim(heap[allUniqueLangs[m]].name) # lowercaseTrim(options.hide[j]) }
        count == clampValue(parseInt(options.langs_count), 1, 10)
    IN  IF Cardinality(shown) < count THEN Cardinality(shown) ELSE count

\* C6: the card's height is 45 + (n+1)*40 in normal layout, n the size of the
\* selection, and 90 + round(r/2)*19 in compact layout, r the number of repositories
\* of the response with at least one language.
C6_HeightFollowsLayout ==
    pc = "rendered" =>
        LET r == Cardinality({ i \in 1..Len(res.nodes) : Len(res.nodes[i].edges) # 0 })
        IN  height = IF options.layout = "compact"
                     THEN 90 + ((r + 1) \div 2) * 19
                     ELSE 45 + (SelectionSize + 1) * 40

\* C9: in every strip consecutive segments do not overlap: the later one starts
\* at or after the earlier one's x plus its drawn width.
C9_SegmentsDoNotOverlap ==
    pc = "rendered" =>
        \A i \in 1..Len(layouts) :
            /\ Len(layouts[i]) > 0 => layouts[i][1].x = 0
            /\ \A k \in 1..(Len(layouts[i]) - 1) :
                  /\ layouts[i][k].x # NaN /\ layouts[i][k].width # NaN
                  /\ layouts[i][k + 1].x # NaN
                  /\ layouts[i][k + 1].x >= layouts[i][k].x + layouts[i][k].width

\* C10: renderTopLanguages leaves every input share record and every
\* per-repository list as it was.
C10_InputUnchanged ==
    [][ (pc = "fetched" /\ pc' = "rendered") =>
           /\ topLangs' = topLangs
           /\ \A ref \in 1..Len(heap) : heap'[ref] = heap[ref] ]_vars

C10_Witness ==
    /\ pc = "rendered"
    /\ \E m \in 1..Len(allUniqueLangs) :
          Len(SizesOfPair(InputShares, PairOf(heap[allUniqueLangs[m]]))) >= 2
    /\ \A m \in 1..Len(allUniqueLangs) : \A k \in 1..Len(InputRefs) :
          allUniqueLangs[m] # InputRefs[k]

\* the merged entries the merge pass gives for the per-repository lists lists
MergedEntries(lists) ==
    LET m == MergePass(Flatten(lists), heap, <<>>)
    IN  { [name |-> m.heap[m.uniq[k]].name, color |-> m.heap[m.uniq[k]].color,
           size |-> m.heap[m.uniq[k]].size] : k \in 1..Len(m.uniq) }

RenderedEntries ==
    { [name |-> heap[allUniqueLangs[k]].name, color |-> heap[allUniqueLangs[k]].color,
       size |-> heap[allUniqueLangs[k]].size] : k \in 1..Len(allUniqueLangs) }

Orderings(n) == { o \in [1..n -> 1..n] : \A i, j \in 1..n : i # j => o[i] # o[j] }

\* C7 as stated: every ordering of the repositories gives the same merged
\* entries with the same sizes.
C7_OrderIndependentExactly ==
    pc = "rendered" =>
        \A o \in Orderings(Len(topLangs)) :
            MergedEntries(Reorder(topLangs, o)) = RenderedEntries

\* the exact (unrounded) sum of a sequence of finite sizes
RECURSIVE ExactSum(_)
ExactSum(s) == IF s = <<>> THEN 0 ELSE s[1] + ExactSum(Tail(s))

Abs(x) == IF x < 0 THEN 0 - x ELSE x

\* two sums of the sizes s, each made of Len(s) - 1 rounded additions, are this close:
\* |a - b| <= 2 * g * (exact sum), g = (k-1)u / (1 - (k-1)u), u = 2^-MantissaBits
WithinRounding(a, b, s) ==
    IF \E k \in 1..Len(s) : s[k] = NaN THEN a = NaN /\ b = NaN
    ELSE /\ a # NaN /\ b # NaN
         /\ Abs(a - b) * (Pow2(MantissaBits) - (Len(s) - 1)) <= 2 * (Len(s) - 1) * ExactSum(s)

\* C7, amended: every ordering of the repositories gives the same set of
\* (name, color) entries; an entry's size is the same when at most two shares
\* carry its pair, and the same up to the rounding of the additions otherwise.
C7_OrderIndependentUpToRounding ==
    pc = "rendered" =>
        \A o \in Orderings(Len(topLangs)) :
            LET other == MergedEntries(Reorder(topLangs, o))
            IN  /\ { <<e.name, e.color>> : e \in other }
                     = { <<e.name, e.color>> : e \in RenderedEntries }
                /\ Cardinality(other) = Cardinality(RenderedEntries)
                /\ \A e \in other : \A f \in RenderedEntries :
                      (e.name = f.name /\ e.color = f.color) =>
                         LET s == SizesOfPair(InputShares, <<e.name, e.color>>)
                         IN  /\ Len(s) <= 2 => e.size = f.size
                             /\ WithinRounding(e.size, f.size, s)

C7_Witness ==
    /\ pc = "rendered"
    /\ Len(topLangs) = 3
    /\ \E o \in Orderings(Len(topLangs)) :
          /\ MergedEntries(Reorder(topLangs, o)) # RenderedEntries
          /\ { <<e.name, e.color>> : e \in MergedEntries(Reorder(topLangs, o)) }
               = { <<e.name, e.color>> : e \in RenderedEntries }

\* the positions of uTopLangs that the hide list does not match
Shown ==
    { i \in 1..Len(uTopLangs) :
        \A j \in 1..Len(uHide) : lowercaseTrim(uTopLangs[i].name) # lowercaseTrim(uHide[j]) }

Clamped == clampValue(parseInt(uCount), 1, 10)

\* the position in uTopLangs of a returned entry (names are distinct there)
PositionOf(lang) == CHOOSE i \in 1..Len(uTopLangs) : uTopLangs[i] = lang

\* C4: useLanguages returns the first clamp(count,1,10) entries of the
\* size-descending list without the hidden languages: at most that many, none
\* hidden, the largest ones that are shown, in descending order, and
\* totalLanguageSize is the sum of the sizes returned.
C4_SelectTop ==
    upc = "returned" =>
        LET R == uResult.langs
        IN  /\ Len(R) = IF Cardinality(Shown) < Clamped THEN Cardinality(Shown) ELSE Clamped
            /\ Len(R) <= 10
            /\ \A k \in 1..Len(R) : \E i \in Shown : uTopLangs[i] = R[k]
            /\ \A k, l \in 1..Len(R) : k < l =>
                  /\ R[k] # R[l]
                  /\ R[k].size >= R[l].size
                  /\ R[k].size = R[l].size => PositionOf(R[k]) < PositionOf(R[l])
            /\ \A i \in Shown :
                  (\A k \in 1..Len(R) : R[k] # uTopLangs[i]) =>
                      \A k \in 1..Len(R) :
                         /\ R[k].size >= uTopLangs[i].size
                         /\ R[k].size = uTopLangs[i].size => PositionOf(R[k]) < i
            /\ uResult.totalLanguageSize
                  = IF R = <<>> THEN 0 ELSE SumInOrder([k \in 1..Len(R) |-> R[k].size])

\* twelve languages, the largest one hidden, eleven left for ten places
C4_Witness ==
    /\ upc = "returned"
    /\ Len(uTopLangs) = 12
    /\ Clamped = 10
    /\ 1 \notin Shown
    /\ \A i \in 1..Len(uTopLangs) : uTopLangs[1].size >= uTopLangs[i].size
    /\ Cardinality(Shown) = 11
    /\ Len(uResult.langs) = 10
    /\ uResult.langs[1] = uTopLangs[2]

====
